---- MODULE Spec2Model ----
(***************************************************************************)
(* A model of CODE/CycloMeter.py: the three-rotor encryption engine        *)
(* (encrypt_letter) and the cycle analyser built on it                     *)
(* (get_cycle_structure); and of the two shift-cipher scripts,             *)
(* CODE/3_rotor_python_A.py and CODE/3_rotor_B_[live].py.                  *)
(*                                                                         *)
(* Characters are one-character strings, rotor positions are integers in   *)
(* 0..25, and Python's 0-based s[i] is the tuple access s[i + 1].          *)
(***************************************************************************)
EXTENDS Integers, Sequences, FiniteSets, TLC

VARIABLES
    \* the configuration a caller supplies
    rotor_order,      \* (left_rotor, mid_rotor, right_rotor)
    reflector_type,   \* the reflector id
    start_positions,  \* (left_pos, middle_pos, right_pos) chosen at the start
    entry,            \* the function the caller calls for a cycle analysis
    \* a caller pressing keys through encrypt_letter
    rotor_positions,  \* the caller's position triple, threaded press to press
    call,             \* arguments of the last encrypt_letter call, or NoCall
    ret,              \* what that call returned or raised, or NoCall
    npress,           \* presses made so far
    \* display_cycles and the locals of get_cycle_structure
    pc,               \* where the run of display_cycles stands
    letter_idx,       \* how many letters the for loop of line 114 has taken
    cycles,
    seen,
    cycle,
    start_letter,
    current_letter,
    pos1,             \* (pos_left1, pos_mid1, pos_right1)
    pos2,             \* (pos_left2, pos_mid2, pos_right2)
    pos3,             \* (pos_left3, pos_mid3, pos_right3)
    output_letter,
    report,           \* what display_cycles printed, or NoReport
    presses,          \* calls of encrypt_letter the analysis has made
    walk,             \* passes of the while loop of line 122 in this walk
    \* one rotor or one reflector applied to one letter
    bench,
    \* the two shift-cipher scripts
    live,             \* 3_rotor_B_[live].py: its widgets and globals, or NoScript
    tape,             \* what a user of that script typed and read, run by run
    click             \* 3_rotor_python_A.py: its widgets and the locals of
                      \* on_button_click, or NoScript

config_vars == << rotor_order, reflector_type, start_positions, entry >>
press_vars  == << rotor_positions, call, ret, npress >>
cycle_vars  == << pc, letter_idx, cycles, seen, cycle, start_letter, current_letter,
                  pos1, pos2, pos3, output_letter, report, presses, walk >>

script_vars == << live, tape, click >>

vars == << config_vars, press_vars, cycle_vars, bench, script_vars >>

-----------------------------------------------------------------------------
(* Bounds of the model *)

\* Presses a key-pressing caller makes before it stops.
MaxPress == 2

\* Different letters a caller presses before and after a cycle analysis.
MaxKeys == 2

\* Characters typed into a text field before it is cleared.
MaxTyped == 2

\* A start position lies at most PosSpan steps before its rotor's notch
\* letter, or is one of the two positions around the wrap from 25 to 0.
PosSpan == 1

-----------------------------------------------------------------------------
(* string.ascii_uppercase, ord and chr *)

ascii_uppercase ==
    << "A", "B", "C", "D", "E", "F", "G", "H", "I", "J", "K", "L", "M",
       "N", "O", "P", "Q", "R", "S", "T", "U", "V", "W", "X", "Y", "Z" >>

Range(s) == { s[i] : i \in DOMAIN s }

\* The code points of the upper-case letters: 'A' is 65.
code_point ==
    [ ch \in Range(ascii_uppercase) |->
        64 + (CHOOSE i \in DOMAIN ascii_uppercase : ascii_uppercase[i] = ch) ]

ord(ch) == code_point[ch]

\* chr(n) for 65 <= n <= 90.
chr(n) == ascii_uppercase[n - 64]

\* str.index: the lowest index at which ch occurs in s.
index(s, ch) ==
    LET found == { i \in 0..(Len(s) - 1) : s[i + 1] = ch }
    IN  CHOOSE i \in found : \A j \in found : i <= j

-----------------------------------------------------------------------------
(* The embedded tables *)

rotor_wiring ==
    [ I   |-> << "E", "K", "M", "F", "L", "G", "D", "Q", "V", "Z", "N", "T", "O",
                 "W", "Y", "H", "X", "U", "S", "P", "A", "I", "B", "R", "C", "J" >>,
      II  |-> << "A", "J", "D", "K", "S", "I", "R", "U", "X", "B", "L", "H", "W",
                 "T", "M", "C", "Q", "G", "Z", "N", "P", "Y", "F", "V", "O", "E" >>,
      III |-> << "B", "D", "F", "H", "J", "L", "C", "P", "R", "T", "X", "V", "Z",
                 "N", "Y", "E", "I", "W", "G", "A", "K", "M", "U", "S", "Q", "O" >> ]

\* wiring_str.index(ch) for each wiring string and letter.
wiring_index ==
    [ r \in DOMAIN rotor_wiring |->
        [ ch \in Range(ascii_uppercase) |-> index(rotor_wiring[r], ch) ] ]

rotor_notch == [ I |-> "Q", II |-> "E", III |-> "V" ]

\* A faulty variant of the reflector tables: in table A the entry for T is
\* mistyped as R.
reflector_wiring_mistyped ==
    [ A |-> [ A |-> "E", E |-> "A", B |-> "J", J |-> "B", C |-> "M", M |-> "C",
              D |-> "Z", Z |-> "D", F |-> "L", L |-> "F", G |-> "Y", Y |-> "G",
              H |-> "X", X |-> "H", I |-> "V", V |-> "I", K |-> "W", W |-> "K",
              N |-> "O", O |-> "N", P |-> "Q", Q |-> "P", R |-> "U", U |-> "R",
              S |-> "T", T |-> "R" ],
      B |-> [ A |-> "Y", Y |-> "A", B |-> "R", R |-> "B", C |-> "U", U |-> "C",
              D |-> "H", H |-> "D", E |-> "Q", Q |-> "E", F |-> "S", S |-> "F",
              G |-> "L", L |-> "G", I |-> "P", P |-> "I", J |-> "X", X |-> "J",
              K |-> "N", N |-> "K", M |-> "O", O |-> "M", T |-> "Z", Z |-> "T",
              V |-> "W", W |-> "V" ] ]

reflector_wiring ==
    [ A |-> [ A |-> "E", E |-> "A", B |-> "J", J |-> "B", C |-> "M", M |-> "C",
              D |-> "Z", Z |-> "D", F |-> "L", L |-> "F", G |-> "Y", Y |-> "G",
              H |-> "X", X |-> "H", I |-> "V", V |-> "I", K |-> "W", W |-> "K",
              N |-> "O", O |-> "N", P |-> "Q", Q |-> "P", R |-> "U", U |-> "R",
              S |-> "T", T |-> "S" ],
      B |-> [ A |-> "Y", Y |-> "A", B |-> "R", R |-> "B", C |-> "U", U |-> "C",
              D |-> "H", H |-> "D", E |-> "Q", Q |-> "E", F |-> "S", S |-> "F",
              G |-> "L", L |-> "G", I |-> "P", P |-> "I", J |-> "X", X |-> "J",
              K |-> "N", N |-> "K", M |-> "O", O |-> "M", T |-> "Z", Z |-> "T",
              V |-> "W", W |-> "V" ] ]

plugboard_map == [ ch \in Range(ascii_uppercase) |-> ch ]

rotor_options == << "I", "II", "III" >>

reflector_options == << "A", "B" >>

-----------------------------------------------------------------------------
(* encrypt_letter *)

char_to_index(ch) == ord(ch) - ord("A")

index_to_char(i) == chr(i + ord("A"))

\* A faulty variant of the stepping rules: the middle rotor is stepped first,
\* and the left rotor's test reads the middle position after that step.
StepRotorsMidFirst(order, positions) ==
    LET mid_rotor   == order[2]
        right_rotor == order[3]
        pos_left    == positions[1]
        pos_mid     == positions[2]
        pos_right   == positions[3]
        mid_at_notch   == ascii_uppercase[pos_mid + 1] = rotor_notch[mid_rotor]
        right_at_notch == ascii_uppercase[pos_right + 1] = rotor_notch[right_rotor]
        new_mid == IF right_at_notch \/ mid_at_notch THEN (pos_mid + 1) % 26 ELSE pos_mid
    IN  << IF ascii_uppercase[new_mid + 1] = rotor_notch[mid_rotor]
              THEN (pos_left + 1) % 26 ELSE pos_left,
           new_mid,
           (pos_right + 1) % 26 >>

\* A faulty variant of the stepping rules, an odometer: the middle rotor
\* steps only when the right rotor is at its notch.
StepRotorsOdometer(order, positions) ==
    LET mid_rotor   == order[2]
        right_rotor == order[3]
        pos_left    == positions[1]
        pos_mid     == positions[2]
        pos_right   == positions[3]
        mid_at_notch   == ascii_uppercase[pos_mid + 1] = rotor_notch[mid_rotor]
        right_at_notch == ascii_uppercase[pos_right + 1] = rotor_notch[right_rotor]
    IN  << IF mid_at_notch THEN (pos_left + 1) % 26 ELSE pos_left,
           IF right_at_notch THEN (pos_mid + 1) % 26 ELSE pos_mid,
           (pos_right + 1) % 26 >>

\* The stepping rules.  Both notch tests read pos_mid as it came in: the
\* first assigns pos_left only, and the second runs before pos_mid changes.
StepRotors(order, positions) ==
    LET mid_rotor   == order[2]
        right_rotor == order[3]
        pos_left    == positions[1]
        pos_mid     == positions[2]
        pos_right   == positions[3]
        mid_at_notch   == ascii_uppercase[pos_mid + 1] = rotor_notch[mid_rotor]
        right_at_notch == ascii_uppercase[pos_right + 1] = rotor_notch[right_rotor]
    IN  << IF mid_at_notch THEN (pos_left + 1) % 26 ELSE pos_left,
           IF right_at_notch \/ mid_at_notch THEN (pos_mid + 1) % 26 ELSE pos_mid,
           (pos_right + 1) % 26 >>

\* A faulty variant of the way in: the contact is taken modulo 25.
ForwardRotorMod25(rotor, offset, c) ==
    LET in_idx     == char_to_index(c)
        wiring_str == rotor_wiring[rotor]
    IN  (char_to_index(wiring_str[((in_idx + offset) % 25) + 1]) - offset) % 26

\* One rotor on the way in (right to left): the index that comes out.
ForwardRotor(rotor, offset, c) ==
    LET in_idx     == char_to_index(c)
        wiring_str == rotor_wiring[rotor]
    IN  (char_to_index(wiring_str[((in_idx + offset) % 26) + 1]) - offset) % 26

\* A faulty variant of the way back: the offset is not added before the
\* lookup in the wiring.
BackwardRotorNoShift(rotor, offset, c) ==
    LET in_idx == char_to_index(c)
    IN  (wiring_index[rotor][chr(in_idx + ord("A"))] - offset) % 26

\* One rotor on the way back (left to right): the index that comes out.
BackwardRotor(rotor, offset, c) ==
    LET in_idx == char_to_index(c)
    IN  (wiring_index[rotor][chr(((in_idx + offset) % 26) + ord("A"))] - offset) % 26

\* A faulty variant of the reflector: a table that sends every letter to the
\* next one, Z to A.
ReflectToNextLetter(reflector, c) == index_to_char((char_to_index(c) + 1) % 26)

\* A faulty variant of the reflector: a table that sends every letter to
\* itself.
ReflectToItself(reflector, c) == c

\* The reflector lookup of line 76.
Reflect(reflector, c) == reflector_wiring[reflector][c]

\* A faulty variant of the substitution: the way back takes the rotors in
\* the order of the way in (right, middle, left).
SubstituteBackRightFirst(letter, order, positions, reflector) ==
    LET left_rotor  == order[1]
        mid_rotor   == order[2]
        right_rotor == order[3]
        pos_left    == positions[1]
        pos_mid     == positions[2]
        pos_right   == positions[3]
        c0 == plugboard_map[letter]
        f1 == ForwardRotor(right_rotor, pos_right, c0)
        f2 == ForwardRotor(mid_rotor, pos_mid, index_to_char(f1))
        f3 == ForwardRotor(left_rotor, pos_left, index_to_char(f2))
        r  == Reflect(reflector, index_to_char(f3))
        b1 == BackwardRotor(right_rotor, pos_right, r)
        b2 == BackwardRotor(mid_rotor, pos_mid, ascii_uppercase[b1 + 1])
        b3 == BackwardRotor(left_rotor, pos_left, ascii_uppercase[b2 + 1])
    IN  plugboard_map[ascii_uppercase[b3 + 1]]

\* Plugboard, three rotors in, reflector, three rotors back, plugboard: the
\* substitution with the positions it is handed.
Substitute(letter, order, positions, reflector) ==
    LET left_rotor  == order[1]
        mid_rotor   == order[2]
        right_rotor == order[3]
        pos_left    == positions[1]
        pos_mid     == positions[2]
        pos_right   == positions[3]
        c0 == plugboard_map[letter]
        f1 == ForwardRotor(right_rotor, pos_right, c0)
        f2 == ForwardRotor(mid_rotor, pos_mid, index_to_char(f1))
        f3 == ForwardRotor(left_rotor, pos_left, index_to_char(f2))
        r  == Reflect(reflector, index_to_char(f3))
        b1 == BackwardRotor(left_rotor, pos_left, r)
        b2 == BackwardRotor(mid_rotor, pos_mid, ascii_uppercase[b1 + 1])
        b3 == BackwardRotor(right_rotor, pos_right, ascii_uppercase[b2 + 1])
    IN  plugboard_map[ascii_uppercase[b3 + 1]]

\* A faulty variant: the substitution reads the positions as they came in,
\* as if the rotors stepped after the letter went through.
SubstitutionPositionsIncoming(incoming, stepped) == incoming

\* The positions the substitution of lines 50-101 reads: those of lines
\* 39-45, the stepped ones.
SubstitutionPositions(incoming, stepped) == stepped

\* A faulty variant of encrypt_letter: the rotors are left where they are
\* when the letter pressed is A.
encrypt_letter_A_does_not_step(letter, order, positions, reflector) ==
    LET stepped == IF letter = "A" THEN positions ELSE StepRotors(order, positions)
    IN  IF reflector \notin DOMAIN reflector_wiring
        THEN [ raised |-> "KeyError" ]
        ELSE [ raised    |-> "",
               c         |-> Substitute(letter, order, stepped, reflector),
               positions |-> stepped ]

\* encrypt_letter.  reflector_wiring[reflector_type] of line 76 raises
\* KeyError for an id that is no key of the table, and nothing is returned;
\* every other lookup is defined for rotor ids I, II, III, upper-case letters
\* and positions in 0..25.
encrypt_letter(letter, order, positions, reflector) ==
    LET stepped == StepRotors(order, positions)
    IN  IF reflector \notin DOMAIN reflector_wiring
        THEN [ raised |-> "KeyError" ]
        ELSE [ raised    |-> "",
               c         |-> Substitute(letter, order,
                                        SubstitutionPositions(positions, stepped),
                                        reflector),
               positions |-> stepped ]

-----------------------------------------------------------------------------
(* The inputs *)

Letters == Range(ascii_uppercase)

AllOrders == Range(rotor_options) \X Range(rotor_options) \X Range(rotor_options)

\* len({left_rotor, middle_rotor, right_rotor}) < 3
HasRepeatedRotor(order) == Cardinality({ order[1], order[2], order[3] }) < 3

DistinctOrders == { o \in AllOrders : ~HasRepeatedRotor(o) }

\* A reflector id that is no key of reflector_wiring.
UnknownReflector == "C"

NotchIndex(rotor) == char_to_index(rotor_notch[rotor])

StartCoords(rotor) ==
    { p \in 0..25 : \E d \in 0..PosSpan : (p + d) % 26 = NotchIndex(rotor) }
        \cup { 25, 0 }

StartPositions(order) ==
    StartCoords(order[1]) \X StartCoords(order[2]) \X StartCoords(order[3])

NoCall == [ raised |-> "none" ]

NoPositions == << >>

NoReport == [ kind |-> "none" ]

NoBench == [ kind |-> "none" ]

NoScript == [ kind |-> "none" ]

\* Neither script is running.
ScriptIdle ==
    /\ live = NoScript
    /\ tape = NoScript
    /\ click = NoScript

PressIdle ==
    /\ call = NoCall
    /\ ret = NoCall
    /\ npress = 0

CycleIdle ==
    /\ pc = entry
    /\ letter_idx = 0
    /\ cycles = << >>
    /\ seen = {}
    /\ cycle = << >>
    /\ start_letter = ""
    /\ current_letter = ""
    /\ pos1 = NoPositions
    /\ pos2 = NoPositions
    /\ pos3 = NoPositions
    /\ output_letter = ""
    /\ report = NoReport
    /\ presses = 0
    /\ walk = 0

\* Three distinct rotors, a reflector of the table, start positions in range.
Init ==
    /\ rotor_order \in DistinctOrders
    /\ reflector_type \in Range(reflector_options)
    /\ start_positions \in StartPositions(rotor_order)
    /\ rotor_positions = start_positions
    /\ entry = "display_cycles"
    /\ PressIdle
    /\ CycleIdle
    /\ bench = NoBench
    /\ ScriptIdle

\* A cycle analysis asked for through display_cycles or by a call of
\* get_cycle_structure, with any three rotor ids of the catalog.
InitCycleAny ==
    /\ rotor_order \in AllOrders
    /\ reflector_type \in Range(reflector_options)
    /\ start_positions \in StartPositions(rotor_order)
    /\ rotor_positions = start_positions
    /\ entry \in { "display_cycles", "get_cycle_structure" }
    /\ PressIdle
    /\ CycleIdle
    /\ bench = NoBench
    /\ ScriptIdle

\* The letters of a caller that presses keys around a cycle analysis.
SessionLetters == { ascii_uppercase[i] : i \in 1..MaxKeys }

\* Its start positions: every rotor on its notch letter or on A.
SessionStarts(order) ==
    { NotchIndex(order[1]), 0 } \X { NotchIndex(order[2]), 0 } \X { NotchIndex(order[3]), 0 }

\* A caller that presses keys and asks for one cycle analysis.
InitSession ==
    /\ rotor_order \in DistinctOrders
    /\ reflector_type \in Range(reflector_options)
    /\ start_positions \in SessionStarts(rotor_order)
    /\ rotor_positions = start_positions
    /\ entry = "display_cycles"
    /\ PressIdle
    /\ CycleIdle
    /\ bench = NoBench
    /\ ScriptIdle

\* What a direct caller of encrypt_letter may pass: any three rotor ids of
\* the catalog, and a reflector id that may be unknown.
InitAny ==
    /\ rotor_order \in AllOrders
    /\ reflector_type \in Range(reflector_options) \cup { UnknownReflector }
    /\ start_positions \in StartPositions(rotor_order)
    /\ rotor_positions = start_positions
    /\ entry = "display_cycles"
    /\ PressIdle
    /\ CycleIdle
    /\ bench = NoBench
    /\ ScriptIdle

-----------------------------------------------------------------------------
(* A caller pressing keys *)

\* One key press: the caller hands its positions to encrypt_letter and keeps
\* the positions it returns; a raised exception leaves them as they were.
Press(letter) ==
    /\ npress < MaxPress
    /\ \E r \in { encrypt_letter(letter, rotor_order, rotor_positions, reflector_type) } :
          /\ call' = [ letter |-> letter, positions |-> rotor_positions ]
          /\ ret' = r
          /\ rotor_positions' = IF r.raised = "" THEN r.positions ELSE rotor_positions
    /\ npress' = npress + 1
    /\ UNCHANGED << config_vars, cycle_vars, bench, script_vars >>

-----------------------------------------------------------------------------
(* get_cycle_structure, entered through display_cycles *)

\* A faulty variant of the test of line 115: no letter is ever skipped.
AlreadySeenNever(letter) == FALSE

\* Line 115: the test that skips a letter.
AlreadySeen(letter) == letter \in seen

\* A faulty variant of the first press: it reads the positions the caller's
\* last key press left, not the start positions it was passed.
ChainStartShared == rotor_positions

\* A faulty variant of the first press: it goes on from the positions the
\* chain before it left behind.
ChainStartLeftOver == IF pos3 = NoPositions THEN start_positions ELSE pos3

\* Lines 124-125: the positions the first press of a chain is handed.
ChainStart == start_positions

\* Lines 172-179: display_cycles refuses a repeated rotor, and calls
\* get_cycle_structure otherwise, which starts with cycles = [] and
\* seen = set().
display_cycles ==
    /\ pc = "display_cycles"
    /\ IF HasRepeatedRotor(rotor_order)
       THEN /\ report' = [ kind |-> "message",
                           text |-> "**Please select three distinct rotors.**" ]
            /\ pc' = "returned"
       ELSE /\ report' = report
            /\ pc' = "for"
    /\ UNCHANGED << letter_idx, cycles, seen, cycle, start_letter, current_letter,
                    pos1, pos2, pos3, output_letter, presses, walk >>
    /\ UNCHANGED << config_vars, press_vars, bench, script_vars >>

\* Lines 114-116: the next letter is in seen already.
ForSkip ==
    /\ pc = "for"
    /\ letter_idx < Len(ascii_uppercase)
    /\ AlreadySeen(ascii_uppercase[letter_idx + 1])
    /\ letter_idx' = letter_idx + 1
    /\ UNCHANGED << pc, cycles, seen, cycle, start_letter, current_letter,
                    pos1, pos2, pos3, output_letter, report, presses, walk >>
    /\ UNCHANGED << config_vars, press_vars, bench, script_vars >>

\* Lines 114-119: the next letter starts a cycle.
ForStart ==
    /\ pc = "for"
    /\ letter_idx < Len(ascii_uppercase)
    /\ ~AlreadySeen(ascii_uppercase[letter_idx + 1])
    /\ letter_idx' = letter_idx + 1
    /\ cycle' = << >>
    /\ start_letter' = ascii_uppercase[letter_idx + 1]
    /\ current_letter' = ascii_uppercase[letter_idx + 1]
    /\ pc' = "press1"
    /\ walk' = 0
    /\ UNCHANGED << cycles, seen, pos1, pos2, pos3, output_letter, report, presses >>
    /\ UNCHANGED << config_vars, press_vars, bench, script_vars >>

\* Lines 124-125: the letter, from the start positions.
Press1 ==
    /\ pc = "press1"
    /\ pos1' = encrypt_letter(current_letter, rotor_order, ChainStart,
                              reflector_type).positions
    /\ pc' = "press2"
    /\ presses' = presses + 1
    /\ UNCHANGED << letter_idx, cycles, seen, cycle, start_letter, current_letter,
                    pos2, pos3, output_letter, report, walk >>
    /\ UNCHANGED << config_vars, press_vars, bench, script_vars >>

\* Lines 128-130: the first dummy press.
Press2 ==
    /\ pc = "press2"
    /\ pos2' = encrypt_letter("A", rotor_order, pos1, reflector_type).positions
    /\ pc' = "press3"
    /\ presses' = presses + 1
    /\ UNCHANGED << letter_idx, cycles, seen, cycle, start_letter, current_letter,
                    pos1, pos3, output_letter, report, walk >>
    /\ UNCHANGED << config_vars, press_vars, bench, script_vars >>

\* Lines 131-132: the second dummy press.
Press3 ==
    /\ pc = "press3"
    /\ pos3' = encrypt_letter("A", rotor_order, pos2, reflector_type).positions
    /\ pc' = "press4"
    /\ presses' = presses + 1
    /\ UNCHANGED << letter_idx, cycles, seen, cycle, start_letter, current_letter,
                    pos1, pos2, output_letter, report, walk >>
    /\ UNCHANGED << config_vars, press_vars, bench, script_vars >>

\* Lines 135-136: the letter again; the positions returned are dropped.
Press4 ==
    /\ pc = "press4"
    /\ output_letter' = encrypt_letter(current_letter, rotor_order, pos3,
                                       reflector_type).c
    /\ pc' = "append"
    /\ presses' = presses + 1
    /\ walk' = walk + 1
    /\ UNCHANGED << letter_idx, cycles, seen, cycle, start_letter, current_letter,
                    pos1, pos2, pos3, report >>
    /\ UNCHANGED << config_vars, press_vars, bench, script_vars >>

\* A faulty variant of the test of line 142: the letter is compared with the
\* first letter of the alphabet.
LoopClosedAtFirstLetter == output_letter = ascii_uppercase[1]

\* Lines 140 and 142: current_letter, now the output letter, is the start
\* letter.
LoopClosed == output_letter = start_letter

\* A faulty variant of the closing of a cycle: the closing repeat is left
\* out.
ClosedCycleNoRepeat(cyc, last, first) == Append(cyc, last)

\* Lines 138 and 143: the last letter of the walk, then the start letter
\* again.
ClosedCycle(cyc, last, first) == Append(Append(cyc, last), first)

\* Lines 138-150: the letter joins the cycle and seen; the walk goes on from
\* the output letter, or closes the cycle when that is the start letter.
AppendLetter ==
    /\ pc = "append"
    /\ seen' = seen \cup { current_letter }
    /\ current_letter' = output_letter
    /\ IF LoopClosed
       THEN /\ cycle' = ClosedCycle(cycle, current_letter, output_letter)
            /\ cycles' = Append(cycles, cycle')
            /\ pc' = "for"
       ELSE /\ cycle' = Append(cycle, current_letter)
            /\ cycles' = cycles
            /\ pc' = "press1"
    /\ UNCHANGED << letter_idx, start_letter, pos1, pos2, pos3, output_letter, report,
                    presses, walk >>
    /\ UNCHANGED << config_vars, press_vars, bench, script_vars >>

\* A faulty variant of the sort: the key is the second element, cyc[1].
SortedBySecond(cs) ==
    LET Before(i) == { j \in DOMAIN cs :
                         \/ ord(cs[j][2]) < ord(cs[i][2])
                         \/ ord(cs[j][2]) = ord(cs[i][2]) /\ j < i }
    IN  [ place \in 1..Len(cs) |->
            cs[CHOOSE i \in DOMAIN cs : Cardinality(Before(i)) + 1 = place] ]

\* sorted(cycles, key=lambda cyc: cyc[0]): a stable sort by first letter.
\* An element's place is one more than the number of elements that go
\* before it: those with a lower first letter, and those with the same first
\* letter that stand earlier in the list.
SortedByFirst(cs) ==
    LET Before(i) == { j \in DOMAIN cs :
                         \/ ord(cs[j][1]) < ord(cs[i][1])
                         \/ ord(cs[j][1]) = ord(cs[i][1]) /\ j < i }
    IN  [ place \in 1..Len(cs) |->
            cs[CHOOSE i \in DOMAIN cs : Cardinality(Before(i)) + 1 = place] ]

\* sum(...) of a list of numbers.
RECURSIVE sum(_)
sum(ns) == IF ns = << >> THEN 0 ELSE Head(ns) + sum(Tail(ns))

\* Lines 151 and 179-205: get_cycle_structure returns cycles, and
\* display_cycles prints them sorted, their lengths and the sum.
Display ==
    /\ pc = "for"
    /\ letter_idx = Len(ascii_uppercase)
    /\ entry = "display_cycles"
    /\ LET cycles_sorted == SortedByFirst(cycles)
           cycle_lengths == [ i \in DOMAIN cycles |-> Len(cycles[i]) - 1 ]
       IN  report' = [ kind          |-> "cycles",
                       cycles_sorted |-> cycles_sorted,
                       lengths       |-> [ i \in DOMAIN cycles_sorted |->
                                             Len(cycles_sorted[i]) - 1 ],
                       cycle_lengths |-> cycle_lengths,
                       total         |-> sum(cycle_lengths) ]
    /\ pc' = "returned"
    /\ UNCHANGED << letter_idx, cycles, seen, cycle, start_letter, current_letter,
                    pos1, pos2, pos3, output_letter, presses, walk >>
    /\ UNCHANGED << config_vars, press_vars, bench, script_vars >>

\* Lines 106-112: get_cycle_structure called by a caller of its own, with
\* whatever rotor order the caller passes.
get_cycle_structure ==
    /\ pc = "get_cycle_structure"
    /\ pc' = "for"
    /\ UNCHANGED << letter_idx, cycles, seen, cycle, start_letter, current_letter,
                    pos1, pos2, pos3, output_letter, report, presses, walk >>
    /\ UNCHANGED << config_vars, press_vars, bench, script_vars >>

\* Line 151: the list goes back to that caller.
ReturnCycles ==
    /\ pc = "for"
    /\ letter_idx = Len(ascii_uppercase)
    /\ entry = "get_cycle_structure"
    /\ report' = [ kind |-> "return", cycles |-> cycles ]
    /\ pc' = "returned"
    /\ UNCHANGED << letter_idx, cycles, seen, cycle, start_letter, current_letter,
                    pos1, pos2, pos3, output_letter, presses, walk >>
    /\ UNCHANGED << config_vars, press_vars, bench, script_vars >>

-----------------------------------------------------------------------------
(* One rotor, or one reflector, applied to one letter *)

InitBench ==
    /\ rotor_order = << "I", "II", "III" >>
    /\ reflector_type = "A"
    /\ start_positions = << 0, 0, 0 >>
    /\ rotor_positions = start_positions
    /\ entry = "display_cycles"
    /\ PressIdle
    /\ CycleIdle
    /\ ScriptIdle
    /\ bench \in
          [ kind : { "rotor" }, rotor : DOMAIN rotor_wiring, offset : 0..25,
            c : Letters, done : { FALSE } ]
          \cup
          [ kind : { "reflector" }, reflector : DOMAIN reflector_wiring,
            c : Letters, done : { FALSE } ]

\* Lines 55-58, then lines 80-83 on what came out, at the same offset.
RotorThereAndBack ==
    /\ bench.kind = "rotor"
    /\ ~bench.done
    /\ \E out_idx \in { ForwardRotor(bench.rotor, bench.offset, bench.c) } :
          bench' = [ bench EXCEPT !.done = TRUE ] @@
                   [ out_idx  |-> out_idx,
                     back_idx |-> BackwardRotor(bench.rotor, bench.offset,
                                                index_to_char(out_idx)) ]
    /\ UNCHANGED << config_vars, press_vars, cycle_vars, script_vars >>

\* Line 76.
ReflectLetter ==
    /\ bench.kind = "reflector"
    /\ ~bench.done
    /\ bench' = [ bench EXCEPT !.done = TRUE ] @@
                [ out |-> Reflect(bench.reflector, bench.c) ]
    /\ UNCHANGED << config_vars, press_vars, cycle_vars, script_vars >>

-----------------------------------------------------------------------------
(* The characters the two shift-cipher scripts are given *)

\* What Python's ord, str.upper and str.isalpha give for the characters,
\* other than A..Z, that the model types.
unicode_data ==
    [ ch \in { "a", "z", " ", "1", "é", "É", "ß" } |->
        CASE ch = "a" -> [ ord |-> 97,  upper |-> << "A" >>,      isalpha |-> TRUE  ]
          [] ch = "z" -> [ ord |-> 122, upper |-> << "Z" >>,      isalpha |-> TRUE  ]
          [] ch = " " -> [ ord |-> 32,  upper |-> << " " >>,      isalpha |-> FALSE ]
          [] ch = "1" -> [ ord |-> 49,  upper |-> << "1" >>,      isalpha |-> FALSE ]
          [] ch = "é" -> [ ord |-> 233, upper |-> << "É" >>,      isalpha |-> TRUE  ]
          [] ch = "É" -> [ ord |-> 201, upper |-> << "É" >>,      isalpha |-> TRUE  ]
          [] ch = "ß" -> [ ord |-> 223, upper |-> << "S", "S" >>, isalpha |-> TRUE  ] ]

\* ord of one character.
text_ord(ch) == IF ch \in DOMAIN code_point THEN code_point[ch] ELSE unicode_data[ch].ord

\* ch.isalpha()
isalpha(ch) == ch \in DOMAIN code_point \/ unicode_data[ch].isalpha

\* ch.upper(): a string, of two characters for some letters.
upper(ch) == IF ch \in DOMAIN code_point THEN << ch >> ELSE unicode_data[ch].upper

\* message.upper(), character by character.
RECURSIVE upper_str(_)
upper_str(str) == IF str = << >> THEN << >> ELSE upper(Head(str)) \o upper_str(Tail(str))

\* What the model types into a text field.
TypedChars == { "a", "Z", " ", "1", "é", "ß" }

\* The letters the model picks in a rotor dropdown.
DropdownLetters == { "A", "Y", "Z" }

-----------------------------------------------------------------------------
(* 3_rotor_B_[live].py *)

\* Lines 6-10.  ord raises TypeError on a string that is not one character.
letter_to_pos(letter) ==
    LET up == upper(letter)
    IN  IF Len(up) = 1
        THEN [ raised |-> "", pos |-> text_ord(up[1]) - 65 ]
        ELSE [ raised |-> "TypeError" ]

\* Lines 12-16.
pos_to_letter(pos) == chr((pos % 26) + 65)

\* Lines 18-30.
encrypt_char(ch, positions) ==
    IF ~isalpha(ch) THEN [ raised |-> "", ch |-> ch ]
    ELSE LET p == letter_to_pos(ch)
         IN  IF p.raised # "" THEN [ raised |-> p.raised ]
             ELSE LET pos1_ == (p.pos + positions[1]) % 26
                      pos2_ == (pos1_ + positions[2]) % 26
                      pos3_ == (pos2_ + positions[3]) % 26
                  IN  [ raised |-> "", ch |-> pos_to_letter(pos3_) ]

\* Lines 32-43.
decrypt_char(ch, positions) ==
    IF ~isalpha(ch) THEN [ raised |-> "", ch |-> ch ]
    ELSE LET p == letter_to_pos(ch)
         IN  IF p.raised # "" THEN [ raised |-> p.raised ]
             ELSE LET pos3_ == (p.pos - positions[3]) % 26
                      pos2_ == (pos3_ - positions[2]) % 26
                      pos1_ == (pos2_ - positions[1]) % 26
                  IN  [ raised |-> "", ch |-> pos_to_letter(pos1_) ]

\* Lines 45-57.
step_rotors(positions) ==
    LET r1_ == (positions[1] + 1) % 26
        r2_ == IF r1_ = 0 THEN (positions[2] + 1) % 26 ELSE positions[2]
        r3_ == IF r1_ = 0 /\ r2_ = 0 THEN (positions[3] + 1) % 26 ELSE positions[3]
    IN  << r1_, r2_, r3_ >>

\* The three positions as the letters the script prints.
PositionLetters(positions) ==
    << pos_to_letter(positions[1]), pos_to_letter(positions[2]),
       pos_to_letter(positions[3]) >>

\* Lines 97-122: the loop over added_substring.  An exception ends the
\* handler where it is raised, with what was done so far kept.
RECURSIVE ProcessAdded(_, _, _)
ProcessAdded(l, added_substring, current_mode) ==
    IF added_substring = << >> THEN l
    ELSE LET ch == Head(added_substring)
             pos_before == PositionLetters(l.rotor_positions)
         IN  IF isalpha(ch)
             THEN LET out == IF current_mode = "Encrypt"
                             THEN encrypt_char(ch, l.rotor_positions)
                             ELSE decrypt_char(ch, l.rotor_positions)
                      stepped == step_rotors(l.rotor_positions)
                  IN  IF out.raised # "" THEN [ l EXCEPT !.raised = out.raised ]
                      ELSE ProcessAdded(
                             [ l EXCEPT
                                 !.rotor_positions = stepped,
                                 !.output_area = Append(@,
                                     [ ch |-> ch, pos_before |-> pos_before,
                                       mode |-> current_mode, out_ch |-> out.ch,
                                       pos_after |-> PositionLetters(stepped) ]) ],
                             Tail(added_substring), current_mode)
             ELSE ProcessAdded(
                    [ l EXCEPT !.output_area = Append(@,
                        [ ch |-> ch, note |-> "no step - non-alpha" ]) ],
                    Tail(added_substring), current_mode)

\* Lines 82-124: the observer of input_text.value, called with the old and
\* the new value of the field.
on_text_change(l, new_value) ==
    LET old_value == l.input_text
        changed == [ l EXCEPT !.input_text = new_value, !.raised = "" ]
        done == IF Len(new_value) > Len(old_value)
                THEN ProcessAdded(changed,
                                  SubSeq(new_value, Len(old_value) + 1, Len(new_value)),
                                  l.mode_dropdown)
                ELSE changed
    IN  IF done.raised # "" THEN done
        ELSE [ done EXCEPT !.old_input_value = new_value ]

\* Lines 126-139.  Emptying the field calls on_text_change when the field
\* was not empty.
on_reset_button_clicked(l) ==
    LET cleared == IF l.input_text = << >> THEN [ l EXCEPT !.raised = "" ]
                   ELSE on_text_change(l, << >>)
    IN  [ cleared EXCEPT
            !.old_input_value = << >>,
            !.rotor_positions = << letter_to_pos(l.rotor1_dropdown).pos,
                                   letter_to_pos(l.rotor2_dropdown).pos,
                                   letter_to_pos(l.rotor3_dropdown).pos >>,
            !.output_area = << >> ]

\* Lines 62-80 and 157-162: the script as it starts.
LiveStart ==
    [ rotor1_dropdown |-> "A", rotor2_dropdown |-> "A", rotor3_dropdown |-> "A",
      mode_dropdown   |-> "Encrypt",
      input_text      |-> << >>,
      old_input_value |-> << >>,
      rotor_positions |-> << letter_to_pos("A").pos, letter_to_pos("A").pos,
                             letter_to_pos("A").pos >>,
      output_area     |-> << >>,
      raised          |-> "" ]

\* What the last handler printed for the character typed, read off the
\* output area: the output character of a letter, the character itself
\* otherwise, nothing when no line was printed.
Produced(before, after) ==
    IF Len(after.output_area) > Len(before.output_area)
    THEN LET line == after.output_area[Len(after.output_area)]
         IN  IF "out_ch" \in DOMAIN line THEN line.out_ch ELSE line.ch
    ELSE ""

\* A user who keeps no tape does as it likes.  A user who keeps one picks
\* the rotor letters, resets, types in Encrypt mode, switches to Decrypt,
\* resets again and types back what it read, character by character.
UserMay(step, arg) ==
    IF tape = NoScript THEN (step = "type" => arg \in TypedChars)
    ELSE CASE step = "select" -> tape.phase = "setup"
           [] step = "reset"  -> tape.phase \in { "setup", "switch" }
           [] step = "mode"   -> tape.phase = "encrypt" /\ tape.enc # << >>
                                  /\ arg = "Decrypt"
           [] step = "type"   ->
                \/ tape.phase = "encrypt" /\ arg \in TypedChars
                \/ /\ tape.phase = "decrypt"
                   /\ Len(tape.dec) < Len(tape.enc)
                   /\ arg = tape.enc[Len(tape.dec) + 1].out

\* The tape after a step of the user.
Taped(step, arg) ==
    IF tape = NoScript THEN tape
    ELSE CASE step = "select" -> tape
           [] step = "reset"  -> [ tape EXCEPT !.phase = IF @ = "setup" THEN "encrypt"
                                                         ELSE "decrypt" ]
           [] step = "mode"   -> [ tape EXCEPT !.phase = "switch" ]
           [] step = "type"   ->
                LET heard == [ ch        |-> arg,
                               out       |-> Produced(live, live'),
                               positions |-> live'.rotor_positions ]
                IN  IF tape.phase = "encrypt"
                    THEN [ tape EXCEPT !.enc = Append(@, heard) ]
                    ELSE [ tape EXCEPT !.dec = Append(@, heard) ]

\* Every character the model can type or read.
Chars == Range(ascii_uppercase) \cup DOMAIN unicode_data

\* The user types one character at the end of the field.
TypeChar(ch) ==
    /\ live # NoScript
    /\ UserMay("type", ch)
    /\ Len(live.input_text) < MaxTyped
    /\ live' = on_text_change(live, Append(live.input_text, ch))
    /\ tape' = Taped("type", ch)
    /\ UNCHANGED << config_vars, press_vars, cycle_vars, bench, click >>

\* The user clicks Reset.
ClickReset ==
    /\ live # NoScript
    /\ UserMay("reset", "")
    /\ live' = on_reset_button_clicked(live)
    /\ tape' = Taped("reset", "")
    /\ UNCHANGED << config_vars, press_vars, cycle_vars, bench, click >>

\* Lines 141-152: the user picks a rotor letter; on_rotor_change does
\* nothing.
SelectRotor(i, letter) ==
    /\ live # NoScript
    /\ UserMay("select", letter)
    /\ live' = CASE i = 1 -> [ live EXCEPT !.rotor1_dropdown = letter ]
                 [] i = 2 -> [ live EXCEPT !.rotor2_dropdown = letter ]
                 [] i = 3 -> [ live EXCEPT !.rotor3_dropdown = letter ]
    /\ live' # live
    /\ tape' = Taped("select", letter)
    /\ UNCHANGED << config_vars, press_vars, cycle_vars, bench, click >>

\* Lines 141-152: the user picks the mode; on_rotor_change does nothing.
SelectMode(mode) ==
    /\ live # NoScript
    /\ UserMay("mode", mode)
    /\ live' = [ live EXCEPT !.mode_dropdown = mode ]
    /\ live' # live
    /\ tape' = Taped("mode", mode)
    /\ UNCHANGED << config_vars, press_vars, cycle_vars, bench, click >>

-----------------------------------------------------------------------------
(* 3_rotor_python_A.py *)

\* Lines 6-12: the widgets as the user has set them before a click on Run.
ClickStarts ==
    [ text_input      : UNION { [ 1..n -> TypedChars ] : n \in 0..MaxTyped },
      rotor1_dropdown : DropdownLetters,
      rotor2_dropdown : DropdownLetters,
      rotor3_dropdown : DropdownLetters,
      mode_dropdown   : { "Encrypt", "Decrypt" },
      pc              : { "idle" },
      message         : { << >> },
      taken           : { 0 },
      r1 : { "" }, r2 : { "" }, r3 : { "" },
      result_chars    : { << >> },
      printed         : { << >> },
      output_text     : { << >> } ]

\* Lines 16-28: on_button_click up to its loop.
on_button_click ==
    /\ click # NoScript
    /\ click.pc = "idle"
    /\ click' = [ click EXCEPT
                    !.pc = "for",
                    !.message = upper_str(click.text_input),
                    !.r1 = click.rotor1_dropdown,
                    !.r2 = click.rotor2_dropdown,
                    !.r3 = click.rotor3_dropdown,
                    !.result_chars = << >>,
                    !.printed = << [ mode |-> click.mode_dropdown,
                                     message |-> upper_str(click.text_input) ] >> ]
    /\ UNCHANGED << config_vars, press_vars, cycle_vars, bench, live, tape >>

\* Lines 60-74: the three letters stepped.
StepLetters(r1, r2, r3) ==
    IF r1 = "Z"
    THEN IF r2 = "Z"
         THEN IF r3 = "Z" THEN << "A", "A", "A" >>
              ELSE << "A", "A", chr(text_ord(r3) + 1) >>
         ELSE << "A", chr(text_ord(r2) + 1), r3 >>
    ELSE << chr(text_ord(r1) + 1), r2, r3 >>

\* Lines 39-55: the output character of a letter.
ShiftChar(char, mode, r1, r2, r3) ==
    LET shift1 == text_ord(r1) - 65 + 1
        shift2 == text_ord(r2) - 65 + 1
        shift3 == text_ord(r3) - 65 + 1
    IN  IF mode = "Encrypt"
        THEN LET mid1 == chr(((text_ord(char) - 65 + shift1) % 26) + 65)
                 mid2 == chr(((text_ord(mid1) - 65 + shift2) % 26) + 65)
             IN  chr(((text_ord(mid2) - 65 + shift3) % 26) + 65)
        ELSE LET mid3 == chr(((text_ord(char) - 65 - shift3) % 26) + 65)
                 mid2 == chr(((text_ord(mid3) - 65 - shift2) % 26) + 65)
             IN  chr(((text_ord(mid2) - 65 - shift1) % 26) + 65)

\* Lines 30-77: one pass of the loop over message.
ButtonChar ==
    /\ click # NoScript
    /\ click.pc = "for"
    /\ click.taken < Len(click.message)
    /\ LET char == click.message[click.taken + 1]
       IN  IF ~isalpha(char)
           THEN click' = [ click EXCEPT
                             !.taken = @ + 1,
                             !.result_chars = Append(@, char),
                             !.printed = Append(@,
                                 [ char |-> char, note |-> "no change, no rotor step" ]) ]
           ELSE LET out_char == ShiftChar(char, click.mode_dropdown,
                                          click.r1, click.r2, click.r3)
                    stepped == StepLetters(click.r1, click.r2, click.r3)
                IN  click' = [ click EXCEPT
                                 !.taken = @ + 1,
                                 !.result_chars = Append(@, out_char),
                                 !.r1 = stepped[1],
                                 !.r2 = stepped[2],
                                 !.r3 = stepped[3],
                                 !.printed = Append(@,
                                     [ char |-> char, out_char |-> out_char,
                                       old_positions |-> << click.r1, click.r2, click.r3 >>,
                                       new_positions |-> stepped ]) ]
    /\ UNCHANGED << config_vars, press_vars, cycle_vars, bench, live, tape >>

\* Lines 78-80: the output string.
ButtonOutput ==
    /\ click # NoScript
    /\ click.pc = "for"
    /\ click.taken = Len(click.message)
    /\ click' = [ click EXCEPT !.pc = "done", !.output_text = click.result_chars ]
    /\ UNCHANGED << config_vars, press_vars, cycle_vars, bench, live, tape >>

-----------------------------------------------------------------------------
(* The scripts' starts and steps *)

\* Either script, started, with the engine of CycloMeter.py left alone.
InitScripts ==
    /\ rotor_order = << "I", "II", "III" >>
    /\ reflector_type = "A"
    /\ start_positions = << 0, 0, 0 >>
    /\ rotor_positions = start_positions
    /\ entry = "display_cycles"
    /\ PressIdle
    /\ CycleIdle
    /\ bench = NoBench
    /\ tape = NoScript
    /\ \/ live = LiveStart /\ click = NoScript
       \/ live = NoScript /\ click \in ClickStarts

\* The live script, with a user who keeps a tape of an Encrypt run and of
\* the Decrypt run after it.
InitRoundTrip ==
    /\ rotor_order = << "I", "II", "III" >>
    /\ reflector_type = "A"
    /\ start_positions = << 0, 0, 0 >>
    /\ rotor_positions = start_positions
    /\ entry = "display_cycles"
    /\ PressIdle
    /\ CycleIdle
    /\ bench = NoBench
    /\ live = LiveStart
    /\ tape = [ phase |-> "setup", enc |-> << >>, dec |-> << >> ]
    /\ click = NoScript

NextLive ==
    \/ \E ch \in Chars : TypeChar(ch)
    \/ ClickReset
    \/ \E i \in 1..3 : \E letter \in DropdownLetters : SelectRotor(i, letter)
    \/ \E mode \in { "Encrypt", "Decrypt" } : SelectMode(mode)

NextClick ==
    \/ on_button_click
    \/ ButtonChar
    \/ ButtonOutput

NextScripts == NextLive \/ NextClick

-----------------------------------------------------------------------------
(* The specifications *)

Next == \E letter \in Letters : Press(letter)

NextCycle ==
    \/ display_cycles
    \/ ForSkip
    \/ ForStart
    \/ Press1
    \/ Press2
    \/ Press3
    \/ Press4
    \/ AppendLetter
    \/ Display

NextCycleAny ==
    \/ NextCycle
    \/ get_cycle_structure
    \/ ReturnCycles

\* A key press of the caller, made while no analysis is running (the
\* analysis is one call, and it returns before the caller goes on).
PressAround ==
    /\ pc \in { entry, "returned" }
    /\ \E letter \in SessionLetters : Press(letter)

NextSession ==
    \/ PressAround
    \/ NextCycle

NextBench == RotorThereAndBack \/ ReflectLetter

\* A caller pressing keys, three distinct rotors and a known reflector.
Spec == Init /\ [][Next]_vars

\* A caller pressing keys, whatever it passes.
SpecAny == InitAny /\ [][Next]_vars

\* display_cycles with three distinct rotors.
SpecCycle == Init /\ [][NextCycle]_vars

\* display_cycles runs on: Python runs the call to its end, one statement
\* after the other.
SpecCycleFair == SpecCycle /\ WF_vars(NextCycle)

\* A cycle analysis through either entry, whatever rotor order is passed.
SpecCycleAny == InitCycleAny /\ [][NextCycleAny]_vars

\* Key presses before and after one cycle analysis.
SpecSession == InitSession /\ [][NextSession]_vars

\* Either shift-cipher script with its user.
SpecScripts == InitScripts /\ [][NextScripts]_vars

\* The live script with a user who types back what an Encrypt run produced.
SpecRoundTrip == InitRoundTrip /\ [][NextLive]_vars

\* The rotor and reflector tables, entry by entry.
SpecBench == InitBench /\ [][NextBench]_vars

-----------------------------------------------------------------------------
(* The stepping contract of encrypt_letter, under Spec *)

Returned == ret.raised = ""

AtNotch(rotor, pos) == ascii_uppercase[pos + 1] = rotor_notch[rotor]

\* C1: the positions encrypt_letter returns are the incoming ones with the
\* left rotor advanced iff the incoming middle position is the middle
\* rotor's notch letter, the middle rotor advanced iff the incoming right
\* position is the right rotor's notch letter or the incoming middle position
\* is the middle rotor's, and the right rotor advanced always; modulo 26, and
\* every test on the incoming values.
C1_StepsFromIncomingPositions ==
    Returned =>
        LET p == call.positions
            q == ret.positions
            mid_notch   == AtNotch(rotor_order[2], p[2])
            right_notch == AtNotch(rotor_order[3], p[3])
        IN  /\ q[1] = IF mid_notch THEN (p[1] + 1) % 26 ELSE p[1]
            /\ q[2] = IF right_notch \/ mid_notch THEN (p[2] + 1) % 26 ELSE p[2]
            /\ q[3] = (p[3] + 1) % 26
            /\ q \in (0..25) \X (0..25) \X (0..25)

\* A press with the middle rotor on its notch, the right rotor off its
\* notch, and the left rotor wrapping from 25 to 0.
C1_Witness ==
    /\ Returned
    /\ AtNotch(rotor_order[2], call.positions[2])
    /\ ~AtNotch(rotor_order[3], call.positions[3])
    /\ call.positions[1] = 25
    /\ ret.positions = << 0, call.positions[2] + 1, call.positions[3] + 1 >>

\* C2: when a press has brought the middle rotor onto its notch letter, the
\* next press advances the middle rotor again and the left rotor with it;
\* and the middle rotor never stays on its notch over a press.
C2_DoubleStep ==
    [][ npress' = npress + 1 =>
          /\ ( /\ Returned
               /\ ~AtNotch(rotor_order[2], call.positions[2])
               /\ AtNotch(rotor_order[2], rotor_positions[2]) )
              => /\ rotor_positions'[2] = (rotor_positions[2] + 1) % 26
                 /\ rotor_positions'[1] = (rotor_positions[1] + 1) % 26
          /\ AtNotch(rotor_order[2], rotor_positions[2])
              => ~AtNotch(rotor_order[2], rotor_positions'[2]) ]_vars

\* Two presses: the first moved the middle rotor onto its notch, the second
\* moved it on and moved the left rotor.
C2_Witness ==
    /\ npress = 2
    /\ Returned
    /\ ~AtNotch(rotor_order[2], start_positions[2])
    /\ AtNotch(rotor_order[2], call.positions[2])
    /\ ret.positions[2] = (call.positions[2] + 1) % 26
    /\ ret.positions[1] = (call.positions[1] + 1) % 26

\* C3: reciprocity.  The cipher letter, pressed from the same incoming
\* positions, gives the letter back and the same advanced positions.
C3_Reciprocity ==
    Returned =>
        LET again == encrypt_letter(ret.c, rotor_order, call.positions, reflector_type)
        IN  /\ again.raised = ""
            /\ again.c = call.letter
            /\ again.positions = ret.positions

\* A press that changed the letter and turned the middle rotor.
C3_Witness ==
    /\ Returned
    /\ ret.c # call.letter
    /\ ret.positions[2] # call.positions[2]

\* C4: the cipher letter is the letter taken through plugboard, right,
\* middle and left rotor, reflector, left, middle and right rotor and
\* plugboard, every rotor at its returned (advanced) position.
C4_SubstitutesWithAdvancedPositions ==
    Returned =>
        LET q  == ret.positions
            x0 == plugboard_map[call.letter]
            x1 == index_to_char(ForwardRotor(rotor_order[3], q[3], x0))
            x2 == index_to_char(ForwardRotor(rotor_order[2], q[2], x1))
            x3 == index_to_char(ForwardRotor(rotor_order[1], q[1], x2))
            y0 == Reflect(reflector_type, x3)
            y1 == index_to_char(BackwardRotor(rotor_order[1], q[1], y0))
            y2 == index_to_char(BackwardRotor(rotor_order[2], q[2], y1))
            y3 == index_to_char(BackwardRotor(rotor_order[3], q[3], y2))
        IN  ret.c = plugboard_map[y3]

\* A press whose letter would have come out differently at the incoming
\* positions.
C4_Witness ==
    /\ Returned
    /\ ret.c # Substitute(call.letter, rotor_order, call.positions, reflector_type)

-----------------------------------------------------------------------------
(* The cycle structure, under SpecCycle *)

\* The fourth-press output of a fresh run press(L), press('A'), press('A'),
\* press(L) from the start positions.
FreshFourthPress(L) ==
    CHOOSE c \in
        { encrypt_letter(L, rotor_order, p3, reflector_type).c :
            p3 \in { encrypt_letter("A", rotor_order, p2, reflector_type).positions :
              p2 \in { encrypt_letter("A", rotor_order, p1, reflector_type).positions :
                p1 \in { encrypt_letter(L, rotor_order, start_positions,
                                        reflector_type).positions } } } } : TRUE

\* The places (cycle, index) at which a letter stands in the returned list,
\* each cycle's closing repeat left out.
PlacesOf(L) ==
    { ik \in (DOMAIN cycles) \X (1..27) :
        ik[2] < Len(cycles[ik[1]]) /\ cycles[ik[1]][ik[2]] = L }

CyclesReturned == pc = "returned" /\ report.kind = "cycles"

\* C5: the list get_cycle_structure returns holds every letter A..Z in
\* exactly one cycle (closing repeats left out), and the cycle lengths
\* len(cycle) - 1 that display_cycles prints sum to 26.
C5_CyclePartition ==
    CyclesReturned =>
        /\ \A L \in Letters : Cardinality(PlacesOf(L)) = 1
        /\ \A i \in DOMAIN cycles : Len(cycles[i]) <= 27
        /\ report.cycle_lengths = [ i \in DOMAIN cycles |-> Len(cycles[i]) - 1 ]
        /\ report.total = 26

\* A returned list of several cycles.
C5_Witness ==
    /\ CyclesReturned
    /\ Len(cycles) > 1
    /\ report.total = 26

\* C6: for the rotor order, start positions and reflector of a run of
\* get_cycle_structure, both when its for loop starts and when it has ended,
\* the indicator mapping L -> fourth-press output takes the 26 letters to 26
\* different letters.
C6_MappingBijective ==
    (pc = "for" /\ letter_idx \in { 0, Len(ascii_uppercase) }) =>
        LET image == { FreshFourthPress(L) : L \in Letters }
        IN  /\ image \subseteq Letters
            /\ Cardinality(image) = Cardinality(Letters)
            /\ Cardinality(Letters) = 26

\* The for loop has ended with every letter walked.
C6_Witness ==
    /\ pc = "for"
    /\ letter_idx = Len(ascii_uppercase)
    /\ seen = Letters

\* C7: whenever the walk has a fourth-press output for a letter, that output
\* is the one of a fresh four-press run from start_positions, and the
\* chain's first press was handed start_positions, whatever was walked
\* before.
C7_ChainFromStartPositions ==
    /\ pc = "append" => output_letter = FreshFourthPress(current_letter)
    /\ pc = "press2" =>
          pos1 = encrypt_letter(current_letter, rotor_order, start_positions,
                                reflector_type).positions

\* A fourth-press output for a letter reached inside a cycle, after other
\* cycles were closed.
C7_Witness ==
    /\ pc = "append"
    /\ Len(cycles) >= 2
    /\ cycle # << >>
    /\ current_letter # start_letter
    /\ pos3 # start_positions

-----------------------------------------------------------------------------
(* The tables, under SpecBench *)

\* C8: for each rotor wiring, every letter and every offset, the way back
\* applied to the way in, at the same offset, gives the letter's index.
C8_RotorRoundTrip ==
    (bench.kind = "rotor" /\ bench.done) =>
        /\ bench.out_idx \in 0..25
        /\ bench.back_idx = char_to_index(bench.c)

\* Rotor II at offset 25 took Z to another letter and back.
C8_Witness ==
    /\ bench.kind = "rotor"
    /\ bench.done
    /\ bench.rotor = "II"
    /\ bench.offset = 25
    /\ bench.c = "Z"
    /\ bench.out_idx # char_to_index(bench.c)
    /\ bench.back_idx = 25

\* C9: each reflector table is defined on every letter, takes different
\* letters to different letters of the alphabet, is its own inverse and
\* leaves no letter where it is.
C9_ReflectorValid ==
    /\ DOMAIN reflector_wiring = Range(reflector_options)
    /\ bench.kind = "reflector" =>
          /\ bench.c \in DOMAIN reflector_wiring[bench.reflector]
          /\ DOMAIN reflector_wiring[bench.reflector] = Letters
          /\ bench.done =>
                /\ bench.out \in Letters
                /\ bench.out # bench.c
                /\ reflector_wiring[bench.reflector][bench.out] = bench.c
                /\ \A y \in Letters \ { bench.c } :
                      reflector_wiring[bench.reflector][y] # bench.out

\* Reflector B took Z to T.
C9_Witness ==
    /\ bench.kind = "reflector"
    /\ bench.done
    /\ bench.reflector = "B"
    /\ bench.c = "Z"
    /\ bench.out = "T"

-----------------------------------------------------------------------------
(* Configuration errors, under SpecAny *)

\* C10: a call of encrypt_letter with a repeated rotor id, or with an
\* unknown reflector id, ends in an error: it returns no cipher letter and
\* no advanced positions.
C10_BadConfigurationRaises ==
    ( /\ call # NoCall
      /\ HasRepeatedRotor(rotor_order) \/ reflector_type \notin Range(reflector_options) )
        => /\ ret.raised # ""
           /\ rotor_positions = call.positions

-----------------------------------------------------------------------------
(* Cycle analysis of a bad configuration, under SpecCycleAny *)

\* C11: a cycle analysis asked for with a repeated rotor id, through
\* display_cycles or by a call of get_cycle_structure, is rejected before any
\* work: encrypt_letter is never called, no cycle is built, and nothing but
\* the rejection is reported.
C11_RepeatedRotorRejectedEarly ==
    HasRepeatedRotor(rotor_order) =>
        /\ presses = 0
        /\ cycles = << >>
        /\ cycle = << >>
        /\ report.kind \notin { "cycles", "return" }
        /\ pc \in { entry, "returned" }

-----------------------------------------------------------------------------
(* Calls that do not disturb each other, under SpecSession *)

-----------------------------------------------------------------------------
(* The shape and order of the cycles, under SpecCycle *)

\* C13: every cycle of the list get_cycle_structure builds and returns is a
\* closed loop: it is not empty, its first and last elements are equal, no
\* letter but that one stands in it twice, and its length is the number of
\* different letters in it plus one.
C13_ClosedLoops ==
    \A i \in DOMAIN cycles :
        LET cyc == cycles[i]
        IN  /\ cyc # << >>
            /\ cyc[1] = cyc[Len(cyc)]
            /\ \A j, k \in DOMAIN cyc :
                  (j < k /\ cyc[j] = cyc[k]) => (j = 1 /\ k = Len(cyc))
            /\ Len(cyc) = Cardinality(Range(cyc)) + 1

\* A returned list whose last cycle goes through two different letters.
C13_Witness ==
    /\ CyclesReturned
    /\ Len(cycles) > 1
    /\ Len(cycles[Len(cycles)]) = 3
    /\ cycles[Len(cycles)][1] # cycles[Len(cycles)][2]

\* The lowest of a set of letters.
Lowest(S) == CHOOSE x \in S : \A y \in S : ord(x) <= ord(y)

\* C16: get_cycle_structure starts each cycle at the lowest letter not yet
\* in a cycle: a cycle's first letter is the lowest letter of that cycle,
\* the first cycle starts at A, the returned list is in strictly increasing
\* order of first letters, and the sort of display_cycles leaves it as it
\* is.
C16_ExtractionOrder ==
    /\ (pc = "press1" /\ cycle = << >>) => start_letter = Lowest(Letters \ seen)
    /\ \A i \in DOMAIN cycles :
          /\ cycles[i][1] = Lowest(Range(cycles[i]))
          /\ i = 1 => cycles[i][1] = "A"
          /\ \A j \in DOMAIN cycles : i < j => ord(cycles[i][1]) < ord(cycles[j][1])
    /\ CyclesReturned => report.cycles_sorted = cycles

\* A displayed list whose second cycle does not start at B: B was skipped.
C16_Witness ==
    /\ CyclesReturned
    /\ Len(cycles) > 2
    /\ cycles[1][1] = "A"
    /\ cycles[2][1] # "B"
    /\ report.cycles_sorted = cycles

-----------------------------------------------------------------------------
(* Every press, under Spec *)

\* C18: no letter encrypts to itself: whatever the three distinct rotors,
\* the reflector A or B, the positions reached and the letter pressed,
\* encrypt_letter returns a letter of the alphabet other than the one
\* pressed.
C18_NoLetterToItself ==
    call # NoCall =>
        /\ Returned
        /\ ret.c \in Letters
        /\ ret.c # call.letter

\* A second press, of the letter E, from positions other than the start
\* positions, that returned a letter other than E.
C18_Witness ==
    /\ npress = 2
    /\ Returned
    /\ call.letter = "E"
    /\ ret.c # "E"
    /\ call.positions # start_positions

-----------------------------------------------------------------------------
(* Positions and letters, under SpecSession *)

\* The positions n presses from the start positions lead to, by the
\* stepping rules alone.
RECURSIVE PositionsAfter(_)
PositionsAfter(n) ==
    IF n = 0 THEN start_positions
    ELSE StepRotors(rotor_order, PositionsAfter(n - 1))

\* C19: the positions after a number of presses are the same whatever
\* letters were pressed and whatever the reflector: the caller's triple
\* after n presses is the start positions stepped n times, and in a cycle
\* analysis the positions after the first, second and third press of a
\* chain, the last of which the fourth press is handed, are the start
\* positions stepped once, twice and three times, for each of the 26
\* letters.
C19_PositionsIgnoreLetters ==
    /\ rotor_positions = PositionsAfter(npress)
    /\ call # NoCall =>
          /\ call.positions = PositionsAfter(npress - 1)
          /\ ret.positions = PositionsAfter(npress)
    /\ pos1 \in { NoPositions, PositionsAfter(1) }
    /\ pos2 \in { NoPositions, PositionsAfter(2) }
    /\ pos3 \in { NoPositions, PositionsAfter(3) }
    /\ pc \in { "press2", "press3", "press4", "append" } => pos1 = PositionsAfter(1)
    /\ pc \in { "press3", "press4", "append" } => pos2 = PositionsAfter(2)
    /\ pc \in { "press4", "append" } => pos3 = PositionsAfter(3)

\* The caller has pressed two keys, the last of them A, and the analysis is
\* about to press Z for the fourth time, with the middle rotor moved since
\* the start.
C19_Witness ==
    /\ npress = 2
    /\ call.letter = "A"
    /\ ret.positions = PositionsAfter(2)
    /\ pc = "press4"
    /\ current_letter = "Z"
    /\ pos3[2] # start_positions[2]

-----------------------------------------------------------------------------
(* The work of a cycle analysis, under SpecCycleFair *)

\* C15: get_cycle_structure ends, for three distinct rotors, any start
\* positions and reflector A or B: no walk of a cycle evaluates the mapping
\* more than 26 times, the call makes at most 26 x 26 x 4 key presses, and
\* the list is returned and displayed in the end.
C15_Terminates ==
    /\ [] /\ walk <= Len(ascii_uppercase)
          /\ presses <= Len(ascii_uppercase) * Len(ascii_uppercase) * 4
          /\ (pc = "for" /\ cycle # << >>) => Len(cycle) = walk + 1
    /\ <>(pc = "returned" /\ report.kind = "cycles")

\* The analysis has ended after four presses for each of the 26 letters.
C15_Witness ==
    /\ pc = "returned"
    /\ report.kind = "cycles"
    /\ presses = 4 * Len(ascii_uppercase)
    /\ walk > 1

-----------------------------------------------------------------------------
(* The callers of a cipher: the two scripts, under SpecScripts *)

\* Three positions 0..25 read as one counter, the first rotor the fastest.
Odometer(positions) == positions[1] + 26 * positions[2] + 26 * 26 * positions[3]

\* The same for three letters A..Z.
LetterOdometer(r1, r2, r3) ==
    Odometer(<< text_ord(r1) - 65, text_ord(r2) - 65, text_ord(r3) - 65 >>)

\* C14: in both scripts, a character that is not alphabetic comes out as it
\* went in and leaves the three rotor positions as they were, and every
\* alphabetic character advances the rotor state by exactly one step.
C14_OnlyLettersStep ==
    [][ /\ ( /\ live # NoScript
             /\ Len(live'.input_text) = Len(live.input_text) + 1 ) =>
              LET ch == live'.input_text[Len(live'.input_text)]
              IN  IF isalpha(ch)
                  THEN Odometer(live'.rotor_positions)
                         = (Odometer(live.rotor_positions) + 1) % (26 * 26 * 26)
                  ELSE /\ live'.rotor_positions = live.rotor_positions
                       /\ Produced(live, live') = ch
        /\ ( /\ click # NoScript
             /\ click'.taken = click.taken + 1 ) =>
              LET char == click.message[click'.taken]
              IN  IF isalpha(char)
                  THEN LetterOdometer(click'.r1, click'.r2, click'.r3)
                         = (LetterOdometer(click.r1, click.r2, click.r3) + 1)
                             % (26 * 26 * 26)
                  ELSE /\ << click'.r1, click'.r2, click'.r3 >>
                             = << click.r1, click.r2, click.r3 >>
                       /\ click'.result_chars = Append(click.result_chars, char) ]_vars

-----------------------------------------------------------------------------
(* Encrypt, then decrypt, in the live script, under SpecRoundTrip *)

\* C20: after a Reset, a sequence typed in Encrypt mode, a Reset to the same
\* start positions and the produced characters typed in Decrypt mode, every
\* step of the second run gives the upper-cased character typed at that step
\* of the first, and leaves the rotor positions that step of the first left.
C20_DecryptGivesBackUpperCase ==
    tape # NoScript =>
        \A k \in DOMAIN tape.dec :
            /\ << tape.dec[k].out >> = upper(tape.enc[k].ch)
            /\ tape.dec[k].positions = tape.enc[k].positions

====
